---- MODULE Spec2Model ----
(***************************************************************************)
(* DocuMinder: the DataService (document repository over two backends,     *)
(* browser localStorage and a PocketBase record store reached over HTTP)   *)
(* and the AuthService (login, logout, session restored from               *)
(* sessionStorage) that pushes its token into the DataService.             *)
(*                                                                         *)
(* One action is one JavaScript macrotask: the synchronous part of a       *)
(* handler together with the microtask continuations it queues (an await   *)
(* of an already settled promise).  An operation suspends only at a fetch; *)
(* a suspended operation is a record of `tasks`, in start order.           *)
(***************************************************************************)
EXTENDS Naturals, Integers, Sequences, FiniteSets, TLC

VARIABLES
    documents,      \* DataService.documents signal
    config,         \* DataService.config signal
    runtimeToken,   \* DataService.runtimeToken signal
    isLoading,      \* DataService.isLoading signal
    error,          \* DataService.error signal
    localData,      \* localStorage['documinder_data']
    storageMode,    \* whether localStorage reads / writes throw
    notes,          \* the record store's Notes collection, newest first
    tasks,          \* suspended operations (awaiting a fetch), in start order
    nextId,         \* number of the next record created (local or remote)
    ops,            \* operations the callers have started so far
    ev,             \* what the last macrotask did (history, read by the properties)
    configData,     \* localStorage['documinder_config']
    isLoggedIn,     \* AuthService.isLoggedIn signal
    currentUser,    \* AuthService.currentUser signal
    isAdmin,        \* AuthService.isAdmin signal
    sessionUser,    \* sessionStorage['documinder_user']
    sessionToken,   \* sessionStorage['documinder_token'] ("" when absent)
    logins,         \* login() calls suspended at the auth-with-password fetch
    tests,          \* testConnection() calls suspended at the health fetch
    aev,            \* what the last AuthService step did (history)
    stale           \* list requests overtaken by a later load's answer (history)

authVars == <<isLoggedIn, currentUser, isAdmin, sessionUser, sessionToken, logins, tests,
              aev>>

vars == <<documents, config, runtimeToken, isLoading, error, localData,
          storageMode, notes, tasks, nextId, ops, ev, configData,
          isLoggedIn, currentUser, isAdmin, sessionUser, sessionToken, logins, tests,
          aev, stale>>

----------------------------------------------------------------------------
(* Bounds *)

\* operations (loadDocuments, addDocument, deleteDocument, saveConfig,
\* setRuntimeToken, login, logout) the callers start after construction
MaxOps == 2
\* operations suspended at a fetch at the same time
MaxInFlight == 2
\* records created during a run (addDocument calls whose backend step is reached)
MaxRecords == 1

----------------------------------------------------------------------------
(* Values *)

\* string | null : null is a value no message equals
Null == "<null>"

SessionTokens == {"", "session-token"}
StaticTokens == {"", "static-token"}

DefaultUrl == "http://127.0.0.1:8090"

Configs == [usePocketBase : BOOLEAN, pbUrl : {DefaultUrl}, pbAuthToken : StaticTokens]

\* the configuration the config signal is created with
DefaultConfig == [usePocketBase |-> FALSE, pbUrl |-> DefaultUrl, pbAuthToken |-> ""]
\* config() is null (JSON.parse of the stored text gave null): reading a property
\* of it throws a TypeError, so the fields here are never read
NullConfig == [usePocketBase |-> FALSE, pbUrl |-> Null, pbAuthToken |-> Null]

\* a JSON value that is not a string (an array, a number, an object), and a
\* property that is missing
NotAString == "<not a string>"
Undefined == "<undefined>"
IsString(v) == v \notin {NotAString, Undefined, Null}

\* UserData | null
UserData(id, username, email, name, role) ==
    [id |-> id, username |-> username, email |-> email, name |-> name, role |-> role]
NoUser == UserData(Null, Null, Null, Null, Null)

\* what a caller types into the login form
Credentials ==
    { [email |-> "docuser@docuser.com", pass |-> "docuser"],
      [email |-> "docuser", pass |-> "docuser"],
      [email |-> "docuser@docuser.com", pass |-> "wrong"] }
NoCredentials == [email |-> "", pass |-> ""]

\* history of an AuthService step: the value login() resolved to ("" while it is
\* pending or for other steps), whether an exception left the step, the route
\* passed to router.navigate, the credentials a local login was given, what the
\* constructor found stored as identity, and what the loadDocuments() started by
\* restoreSession (through setRuntimeToken) did
AuthEv(name) ==
    [name |-> name, ret |-> "", threw |-> FALSE, nav |-> "",
     cred |-> NoCredentials, stored |-> "", load |-> "none"]

\* documents() is JavaScript data: an array, or null when JSON.parse gave null
Arr(items) == [isArray |-> TRUE, items |-> items]
JsNull == [isArray |-> FALSE, items |-> <<>>]

\* the argument of addDocument: Omit<DocItem, 'id' | 'created'>
\* (one with every field given, one with the optional fields left empty)
DocInputs ==
    { [title |-> "Passport", category |-> "Travel", details |-> "renew it",
       expirationDate |-> "2027-01-01T00:00:00.000Z"],
      [title |-> "Visa", category |-> "", details |-> "", expirationDate |-> ""] }

Stamp(n) == "2026-01-0" \o ToString(n) \o "T00:00:00.000Z"
LocalId(n) == "uuid-" \o ToString(n)
RemoteId(n) == "pb-" \o ToString(n)

\* a record stored before the run started
OldLocalDoc ==
    [id |-> "uuid-0", title |-> "Lease", details |-> "", category |-> "General",
     expirationDate |-> "2026-06-01T00:00:00.000Z", created |-> Stamp(0)]
\* a Notes record written by another client, its optional fields missing
OldNote ==
    [id |-> "pb-0", Note |-> "", NoteObservation |-> "", Category |-> "",
     expiration_date |-> "", created |-> Stamp(0)]

\* localStorage['documinder_data']: absent, text JSON.parse rejects, or JSON text
\* (held as the value it parses to)
Absent == [kind |-> "absent", value |-> JsNull]
Garbage == [kind |-> "garbage", value |-> JsNull]
JsonText(v) == [kind |-> "json", value |-> v]

RECURSIVE SeqToSet(_)
SeqToSet(s) == IF s = <<>> THEN {} ELSE {Head(s)} \cup SeqToSet(Tail(s))

RECURSIVE FilterOut(_, _)
FilterOut(s, id) ==
    IF s = <<>> THEN <<>>
    ELSE IF Head(s).id = id THEN FilterOut(Tail(s), id)
         ELSE <<Head(s)>> \o FilterOut(Tail(s), id)

Ids(s) == {s[i].id : i \in 1..Len(s)}

----------------------------------------------------------------------------
(* Safe storage wrappers and the local backend *)

\* getSafeItem(key): the stored text, or null when the read throws
getSafeItem(ld, mode) == IF mode = "blocked" THEN Absent ELSE ld

\* setSafeItem that never reaches localStorage
setSafeItemDropsWrite(ld, mode, value) == ld

\* setSafeItem(key, JSON.stringify(value)): a write that throws is swallowed and
\* leaves the entry as it was
setSafeItem(ld, mode, value) == IF mode = "ok" THEN JsonText(value) ELSE ld

\* loadConfig: the value of config after it; the stored text is applied whenever
\* JSON.parse accepts it, whatever it parses to
loadConfig(cd, mode) ==
    LET savedConfig == getSafeItem(cd, mode) IN
    IF savedConfig.kind = "json" THEN savedConfig.value ELSE DefaultConfig

\* loadFromLocal: the new value of documents
loadFromLocal(ld, mode) ==
    LET data == getSafeItem(ld, mode) IN
    IF data.kind = "json" THEN data.value      \* JSON.parse(data), array or not
    ELSE Arr(<<>>)                             \* null, or JSON.parse threw

\* generateId / new Date().toISOString(): fresh for each record
NewLocalDoc(doc, n) ==
    [id |-> LocalId(n), title |-> doc.title, details |-> doc.details,
     category |-> doc.category, expirationDate |-> doc.expirationDate,
     created |-> Stamp(n)]

\* addToLocal writing with localStorage.setItem directly: a failed write throws
addToLocalUnsafeWrite(docs, ld, mode, doc, n) ==
    IF ~docs.isArray
      THEN [threw |-> TRUE, documents |-> docs, localData |-> ld]
      ELSE [threw |-> mode # "ok", documents |-> Arr(<<NewLocalDoc(doc, n)>> \o docs.items),
            localData |-> setSafeItem(ld, mode, Arr(<<NewLocalDoc(doc, n)>> \o docs.items))]

\* addToLocal: spreading a documents() that is not an array throws before any write
addToLocal(docs, ld, mode, doc, n) ==
    IF ~docs.isArray
      THEN [threw |-> TRUE, documents |-> docs, localData |-> ld]
      ELSE LET updated == <<NewLocalDoc(doc, n)>> \o docs.items IN
           [threw |-> FALSE, documents |-> Arr(updated),
            localData |-> setSafeItem(ld, mode, Arr(updated))]

\* deleteFromLocal: documents().filter throws when documents() is not an array
deleteFromLocal(docs, ld, mode, id) ==
    IF ~docs.isArray
      THEN [threw |-> TRUE, documents |-> docs, localData |-> ld]
      ELSE LET updated == FilterOut(docs.items, id) IN
           [threw |-> FALSE, documents |-> Arr(updated),
            localData |-> setSafeItem(ld, mode, Arr(updated))]

----------------------------------------------------------------------------
(* The remote backend *)

\* getAuthToken: runtimeToken() || config().pbAuthToken
getAuthToken(rt, cfg) == IF rt # "" THEN rt ELSE cfg.pbAuthToken

\* the mapping without the defaults: every field copied as the record store sent it
MapItemNoDefaults(item) ==
    [id |-> item.id, title |-> item.Note, details |-> item.NoteObservation,
     category |-> item.Category, expirationDate |-> item.expiration_date,
     created |-> item.created]

\* one item of the list response mapped to a DocItem (a || b: b when a is missing
\* or empty)
MapItem(item) ==
    [id |-> item.id,
     title |-> IF item.Note = "" THEN "Untitled" ELSE item.Note,
     details |-> item.NoteObservation,
     category |-> IF item.Category = "" THEN "General" ELSE item.Category,
     expirationDate |-> IF item.expiration_date = "" THEN item.created
                        ELSE item.expiration_date,
     created |-> item.created]

MapItems(items) == [i \in 1..Len(items) |-> MapItem(items[i])]

\* notePayload as the record store keeps it
NewNote(doc, n) ==
    [id |-> RemoteId(n), Note |-> doc.title, NoteObservation |-> doc.details,
     Category |-> doc.category, expiration_date |-> doc.expirationDate,
     created |-> Stamp(n)]

\* FetchError without the translation of the AbortError: the abort's own message
FetchErrorUntranslated(st) ==
    IF st = "timeout" THEN "The operation was aborted." ELSE "Failed to fetch"

\* what fetchWithTimeout throws: the abort of the timer, or fetch's own error
FetchError(st) ==
    IF st = "timeout" THEN "Request timeout: Server did not respond in time"
    ELSE "Failed to fetch"

\* reading a property of a documents() that is null
NullTypeError == "Cannot read properties of null"

\* the message loadFromPocketBase throws with, by what the request came to
ListFailure(st) ==
    CASE st = "err" -> "PB Error: Internal Server Error"
      [] st = "okBad" -> "Unexpected token < in JSON"
      [] OTHER -> FetchError(st)

----------------------------------------------------------------------------
(* Suspended operations *)

NoDoc == [title |-> "", category |-> "", details |-> "", expirationDate |-> ""]

\* op: loadDocuments | addDocument | deleteDocument; pc: the fetch it awaits;
\* auth: the Authorization header of that request; net: "sent" until the record
\* store has answered, then the answer; items: the list answer's items;
\* newId: the id the primary create answered with
NewTask(op, pc, auth, doc, id) ==
    [op |-> op, pc |-> pc, auth |-> auth, doc |-> doc, id |-> id,
     net |-> "sent", items |-> <<>>, newId |-> ""]

Remove(s, i) == [j \in 1..(Len(s) - 1) |-> IF j < i THEN s[j] ELSE s[j + 1]]

\* the outcomes fetchWithTimeout can have for the request of task t: the record
\* store's answer when it has carried the request out ("ok"), a refusal when it
\* has not ("err": a status that is not 2xx; "okBad": a 2xx status whose body is
\* not the JSON expected, where the body is read), or no answer in time
Outcomes(t) ==
    (IF t.net = "ok" THEN {"ok"}
     ELSE {"err"} \cup (IF t.pc \in {"list", "reload", "primary"} THEN {"okBad"} ELSE {}))
    \cup {"network", "timeout"}

\* history record of a macrotask: name, the handler that ran; load, what a
\* loadDocuments() called in it did; req, the requests it issued; st, the outcome
\* of the fetch it resumed from; failed, the operation's backend mutation step
\* failed in it; threw, an exception left the operation (its promise rejected);
\* hadError, error was set when it began; docsChanged, it changed documents;
\* newId, for the reload of an addDocument that ended in it, the id its primary
\* create was answered with; op, for a list answer, the operation that awaited it
\* (loadDocuments, or the add / delete that reloads); cfg, the configuration the
\* loadDocuments() called by name began under (for saveConfig, its argument);
\* result, the value testConnection resolved to
NoResult == [success |-> FALSE, message |-> Null]
EvBase(name) ==
    [name |-> name, load |-> "none", req |-> <<>>, st |-> "",
     failed |-> FALSE, threw |-> FALSE, hadError |-> FALSE, docsChanged |-> FALSE,
     newId |-> "", op |-> "", cfg |-> NullConfig, result |-> NoResult]

Req(kind, auth) == [kind |-> kind, auth |-> auth]

----------------------------------------------------------------------------
(* loadDocuments up to its first suspension *)

\* loadDocumentsStart with loadFromPocketBase's `if (!token) return` left out
loadDocumentsStartNoTokenCheck(cfg, rt, docs, ld, mode) ==
    IF cfg.usePocketBase
      THEN [load |-> "sent", documents |-> docs, auth |-> getAuthToken(rt, cfg)]
      ELSE [load |-> "local", documents |-> loadFromLocal(ld, mode), auth |-> ""]

\* loadDocumentsStart whose local branch adds the stored records to the list in
\* memory
loadDocumentsStartAppends(cfg, rt, docs, ld, mode) ==
    IF cfg.usePocketBase
      THEN LET token == getAuthToken(rt, cfg) IN
           IF token = "" THEN [load |-> "skipped", documents |-> docs, auth |-> ""]
           ELSE [load |-> "sent", documents |-> docs, auth |-> token]
      ELSE [load |-> "local", auth |-> "",
            documents |-> IF docs.isArray /\ loadFromLocal(ld, mode).isArray
                            THEN Arr(docs.items \o loadFromLocal(ld, mode).items)
                            ELSE loadFromLocal(ld, mode)]

\* load: "local" (ran to completion on localStorage), "skipped" (remote, no
\* token: loadFromPocketBase returned at once), "sent" (list request issued)
loadDocumentsStart(cfg, rt, docs, ld, mode) ==
    IF cfg.usePocketBase
      THEN LET token == getAuthToken(rt, cfg) IN
           IF token = "" THEN [load |-> "skipped", documents |-> docs, auth |-> ""]
           ELSE [load |-> "sent", documents |-> docs, auth |-> token]
      ELSE [load |-> "local", documents |-> loadFromLocal(ld, mode), auth |-> ""]

ListReq(r) == IF r.load = "sent" THEN <<Req("list", r.auth)>> ELSE <<>>

----------------------------------------------------------------------------
(* Construction *)

\* localStorage as the constructor finds it: what the entry holds, and whether
\* the browser lets the page read and write it (blocked: reads and writes throw;
\* readonly: writes throw, the quota is used up)
InitLocalData == {Absent, Garbage, JsonText(JsNull), JsonText(Arr(<<OldLocalDoc>>))}
InitStorage ==
    {<<"ok", ld>> : ld \in InitLocalData}
    \cup {<<m, JsonText(Arr(<<OldLocalDoc>>))>> : m \in {"readonly", "blocked"}}

\* the state after the constructor: loadConfig() read some stored configuration,
\* loadDocuments() ran up to its first fetch
InitStates ==
    {[config |-> [usePocketBase |-> FALSE, pbUrl |-> DefaultUrl, pbAuthToken |-> ""],
      mode |-> p[1], data |-> p[2], notes |-> <<OldNote>>] : p \in InitStorage}
    \cup {[config |-> [usePocketBase |-> TRUE, pbUrl |-> DefaultUrl, pbAuthToken |-> t],
           mode |-> "ok", data |-> JsonText(Arr(<<OldLocalDoc>>)), notes |-> n] :
             t \in StaticTokens, n \in {<<>>, <<OldNote>>}}

\* no list request has been overtaken yet: the positions in tasks of the list
\* requests issued before one whose answer has already been applied, and the list
\* that the latest-issued request answered so far gave
NoStale == [tasks |-> {}, result |-> Arr(<<>>)]

Init ==
    /\ runtimeToken = ""
    /\ \E p \in InitStates :
         /\ config = p.config /\ storageMode = p.mode
         /\ localData = p.data /\ notes = p.notes
    /\ nextId = 1
    /\ ops = 0
    /\ LET r == loadDocumentsStart(config, runtimeToken, Arr(<<>>), localData, storageMode) IN
         /\ documents = r.documents
         /\ isLoading = (r.load = "sent")
         /\ error = Null
         /\ tasks = IF r.load = "sent"
                      THEN <<NewTask("loadDocuments", "list", r.auth, NoDoc, "")>>
                      ELSE <<>>
         /\ ev = [EvBase("constructor") EXCEPT !.load = r.load, !.req = ListReq(r),
                                               !.docsChanged = (r.documents # Arr(<<>>))]
    /\ configData = JsonText(config)
    \* the repository on its own: nobody has logged in
    /\ isLoggedIn = FALSE /\ currentUser = NoUser /\ isAdmin = FALSE
    /\ sessionUser = Absent /\ sessionToken = "" /\ logins = 0 /\ tests = 0
    /\ aev = AuthEv("")
    /\ stale = NoStale

----------------------------------------------------------------------------
(* Operations: each action is the handler up to its first fetch *)

PendingCreates == Cardinality({i \in 1..Len(tasks) : tasks[i].pc = "primary" /\ tasks[i].net = "sent"})
CanCreate == (nextId - 1) + PendingCreates < MaxRecords
Started == ops < MaxOps /\ ops' = ops + 1

LoadTask(auth) == NewTask("loadDocuments", "list", auth, NoDoc, "")

\* loadDocuments() called by `name` under configuration cfg and session token rt
StartLoad(name, cfg, rt) ==
    IF cfg = NullConfig
      THEN \* config.usePocketBase throws inside the try: caught, no request
           /\ error' = "Failed to load data: " \o NullTypeError
           /\ isLoading' = FALSE
           /\ ev' = [EvBase(name) EXCEPT !.load = "failed", !.hadError = (error # Null),
                                         !.threw = ~documents.isArray]
           /\ UNCHANGED <<documents, tasks>>
      ELSE
    LET r == loadDocumentsStart(cfg, rt, documents, localData, storageMode) IN
    /\ r.load = "sent" => Len(tasks) < MaxInFlight
    /\ documents' = r.documents
    /\ isLoading' = (r.load = "sent")
    /\ error' = Null
    /\ tasks' = IF r.load = "sent" THEN Append(tasks, LoadTask(r.auth)) ELSE tasks
    /\ ev' = [EvBase(name) EXCEPT !.load = r.load, !.req = ListReq(r),
                                  !.hadError = (error # Null),
                                  !.docsChanged = (r.documents # documents),
                                  !.cfg = cfg]

\* loadDocuments()
LoadDocuments ==
    /\ Started
    /\ StartLoad("LoadDocuments", config, runtimeToken)
    /\ UNCHANGED <<config, runtimeToken, localData, storageMode, notes, nextId>>

\* addDocument(doc), local backend: addToLocal, then loadDocuments() to its end
AddDocumentLocal(doc) ==
    /\ Started
    /\ CanCreate
    /\ ~config.usePocketBase
    /\ LET a == addToLocal(documents, localData, storageMode, doc, nextId)
           r == loadDocumentsStart(config, runtimeToken, a.documents, a.localData, storageMode)
       IN IF a.threw
            THEN /\ error' = "Failed to save: " \o NullTypeError
                 /\ ev' = [EvBase("AddDocumentLocal") EXCEPT
                               !.failed = TRUE, !.hadError = (error # Null)]
                 /\ UNCHANGED <<documents, localData, nextId>>
            ELSE /\ documents' = r.documents
                 /\ localData' = a.localData
                 /\ error' = Null
                 /\ nextId' = nextId + 1
                 /\ ev' = [EvBase("AddDocumentLocal") EXCEPT
                               !.load = r.load, !.hadError = (error # Null),
                               !.docsChanged = (r.documents # documents)]
    /\ isLoading' = FALSE
    /\ UNCHANGED <<config, runtimeToken, storageMode, notes, tasks>>

\* addDocument(doc), remote backend, up to the primary create request
AddDocumentRemote(doc) ==
    /\ Started
    /\ CanCreate
    /\ config.usePocketBase
    /\ Len(tasks) < MaxInFlight
    /\ LET token == getAuthToken(runtimeToken, config) IN
         /\ tasks' = Append(tasks, NewTask("addDocument", "primary", token, doc, ""))
         /\ ev' = [EvBase("AddDocumentRemote") EXCEPT
                       !.req = <<Req("create", token)>>, !.hadError = (error # Null)]
    /\ isLoading' = TRUE
    /\ UNCHANGED <<documents, config, runtimeToken, error, localData, storageMode,
                   notes, nextId>>

\* deleteDocument(id), local backend: deleteFromLocal, then loadDocuments()
DeleteDocumentLocal(id) ==
    /\ Started
    /\ ~config.usePocketBase
    /\ LET d == deleteFromLocal(documents, localData, storageMode, id)
           r == loadDocumentsStart(config, runtimeToken, d.documents, d.localData, storageMode)
       IN IF d.threw
            THEN /\ error' = "Failed to delete: " \o NullTypeError
                 /\ ev' = [EvBase("DeleteDocumentLocal") EXCEPT
                               !.failed = TRUE, !.hadError = (error # Null)]
                 /\ UNCHANGED <<documents, localData>>
            ELSE /\ documents' = r.documents
                 /\ localData' = d.localData
                 /\ error' = Null
                 /\ ev' = [EvBase("DeleteDocumentLocal") EXCEPT
                               !.load = r.load, !.hadError = (error # Null),
                               !.docsChanged = (r.documents # documents)]
    /\ isLoading' = FALSE
    /\ UNCHANGED <<config, runtimeToken, storageMode, notes, tasks, nextId>>

\* deleteDocument(id), remote backend, up to the DELETE request
DeleteDocumentRemote(id) ==
    /\ Started
    /\ config.usePocketBase
    /\ Len(tasks) < MaxInFlight
    /\ LET token == getAuthToken(runtimeToken, config) IN
         /\ tasks' = Append(tasks, NewTask("deleteDocument", "del", token, NoDoc, id))
         /\ ev' = [EvBase("DeleteDocumentRemote") EXCEPT
                       !.req = <<Req("delete", token)>>, !.hadError = (error # Null)]
    /\ isLoading' = TRUE
    /\ UNCHANGED <<documents, config, runtimeToken, error, localData, storageMode,
                   notes, nextId>>

\* the ids a caller may pass to deleteDocument: those it sees, and one it does not
DeleteIds == Ids(documents.items) \cup {"no-such-id"}

\* saveConfig(newConfig): replaces the configuration, stores it and reloads, not
\* awaited
SaveConfig(c) ==
    /\ Started
    /\ config' = c
    /\ configData' = setSafeItem(configData, storageMode, c)
    /\ StartLoad("SaveConfig", c, runtimeToken)
    /\ UNCHANGED <<runtimeToken, localData, storageMode, notes, nextId>>

\* the body of setRuntimeToken(token), called by `name`: the token is stored, then
\* config().usePocketBase is read (a TypeError when config() is null, see
\* setRuntimeTokenThrows) and the list reloaded when the remote backend is selected
setRuntimeToken(name, token) ==
    /\ runtimeToken' = token
    /\ IF config # NullConfig /\ config.usePocketBase
         THEN StartLoad(name, config, token)
         ELSE /\ ev' = EvBase(name)
              /\ UNCHANGED <<documents, isLoading, error, tasks>>
setRuntimeTokenThrows == config = NullConfig

\* setRuntimeToken(token): reloads only when the remote backend is selected
SetRuntimeToken(token) ==
    /\ Started
    /\ setRuntimeToken("SetRuntimeToken", token)
    /\ UNCHANGED <<config, localData, storageMode, notes, nextId>>

----------------------------------------------------------------------------
(* Continuations: an operation resumes from its fetch *)

\* `await this.loadDocuments()` of addDocument / deleteDocument, reached once the
\* backend mutation step of task i is over: loadDocuments up to its first
\* suspension, under the configuration and token of this moment
Reload(i, name, st) ==
    LET t == tasks[i]
        r == loadDocumentsStart(config, runtimeToken, documents, localData, storageMode)
    IN /\ documents' = r.documents
       /\ error' = Null
       /\ isLoading' = (r.load = "sent")
       /\ tasks' = IF r.load = "sent"
                     THEN Append(Remove(tasks, i),
                                 [t EXCEPT !.pc = "reload", !.auth = r.auth,
                                           !.net = "sent", !.items = <<>>])
                     ELSE Remove(tasks, i)
       /\ ev' = [EvBase(name) EXCEPT !.load = r.load, !.req = ListReq(r), !.st = st,
                                     !.hadError = (error # Null),
                                     !.docsChanged = (r.documents # documents)]

\* the message addToPocketBase throws with when the primary create did not
\* succeed (a non-2xx answer: its JSON body, or the status when it has none)
AddFailures(st) ==
    CASE st = "err" -> {"{\"message\":\"Failed to create record.\"}",
                        "HTTP 500: Internal Server Error"}
      [] st = "okBad" -> {"Unexpected token < in JSON"}
      [] OTHER -> {FetchError(st)}

\* AddFailed with a catch block that also empties the list
AddFailedClearsList(i, st) ==
    /\ \E msg \in AddFailures(st) : error' = "Failed to save: " \o msg
    /\ isLoading' = FALSE
    /\ tasks' = Remove(tasks, i)
    /\ documents' = Arr(<<>>)
    /\ ev' = [EvBase("PrimaryResponse") EXCEPT
                  !.failed = TRUE, !.st = st, !.hadError = (error # Null),
                  !.docsChanged = (documents # Arr(<<>>))]

\* addDocument's catch and finally after a failed backend mutation step
AddFailed(i, st) ==
    /\ \E msg \in AddFailures(st) : error' = "Failed to save: " \o msg
    /\ isLoading' = FALSE
    /\ tasks' = Remove(tasks, i)
    /\ ev' = [EvBase("PrimaryResponse") EXCEPT
                  !.failed = TRUE, !.st = st, !.hadError = (error # Null)]
    /\ UNCHANGED documents

\* addToPocketBase after the primary create request
PrimaryResponse(i) ==
    /\ tasks[i].pc = "primary"
    /\ \E st \in Outcomes(tasks[i]) :
         IF st = "ok"
           THEN \* newNote read; the Observations request goes out with the token
                \* taken when addToPocketBase began
                /\ tasks' = [tasks EXCEPT ![i] = [@ EXCEPT !.pc = "secondary", !.net = "sent"]]
                /\ ev' = [EvBase("PrimaryResponse") EXCEPT
                              !.req = <<Req("observation", tasks[i].auth)>>, !.st = st,
                              !.hadError = (error # Null)]
                /\ UNCHANGED <<documents, isLoading, error>>
           ELSE AddFailed(i, st)
    /\ UNCHANGED <<config, runtimeToken, localData, storageMode, notes, nextId, ops>>

\* SecondaryResponse without the try / catch around the Observations write: its
\* failure fails the add like a failure of the primary create
SecondaryResponseFails(i) ==
    /\ tasks[i].pc = "secondary"
    /\ \E st \in Outcomes(tasks[i]) :
         IF st = "ok"
           THEN Reload(i, "SecondaryResponse", st)
           ELSE /\ error' = "Failed to save: " \o
                              (IF st = "err" THEN "HTTP 500" ELSE FetchError(st))
                /\ isLoading' = FALSE
                /\ tasks' = Remove(tasks, i)
                /\ ev' = [EvBase("SecondaryResponse") EXCEPT
                              !.failed = TRUE, !.st = st, !.hadError = (error # Null)]
                /\ UNCHANGED documents
    /\ UNCHANGED <<config, runtimeToken, localData, storageMode, notes, nextId, ops>>

\* addToPocketBase after the Observations request: every outcome is logged at
\* most, then addDocument reloads
SecondaryResponse(i) ==
    /\ tasks[i].pc = "secondary"
    /\ \E st \in Outcomes(tasks[i]) : Reload(i, "SecondaryResponse", st)
    /\ UNCHANGED <<config, runtimeToken, localData, storageMode, notes, nextId, ops>>

\* DeleteFailed with the reload moved into the finally block
DeleteFailedReloads(i, st) == Reload(i, "DeleteResponse", st)

\* deleteDocument's catch and finally after a failed backend mutation step
DeleteFailed(i, st) ==
    /\ error' = "Failed to delete: " \o
                  (IF st = "err" THEN "Failed to delete from PB" ELSE FetchError(st))
    /\ isLoading' = FALSE
    /\ tasks' = Remove(tasks, i)
    /\ ev' = [EvBase("DeleteResponse") EXCEPT
                  !.failed = TRUE, !.st = st, !.hadError = (error # Null)]
    /\ UNCHANGED documents

\* deleteFromPocketBase after the DELETE request
DeleteResponse(i) ==
    /\ tasks[i].pc = "del"
    /\ \E st \in Outcomes(tasks[i]) :
         IF st = "ok" THEN Reload(i, "DeleteResponse", st) ELSE DeleteFailed(i, st)
    /\ UNCHANGED <<config, runtimeToken, localData, storageMode, notes, nextId, ops>>

\* loadDocumentsCatch with the list reset whatever it held
loadDocumentsCatchResets(docs, msg) ==
    [error |-> "Failed to load data: " \o msg, threw |-> FALSE, documents |-> Arr(<<>>)]

\* the catch block of loadDocuments: the message is stored, then documents().length
\* is read, which throws when documents() is null; documents is set only to []
\* when it is [] already
loadDocumentsCatch(docs, msg) ==
    [error |-> "Failed to load data: " \o msg, threw |-> ~docs.isArray, documents |-> docs]

\* the prefix an operation's own catch block puts before the message
CatchPrefix(op) == IF op = "addDocument" THEN "Failed to save: " ELSE "Failed to delete: "

\* loadFromPocketBase after the list request, then the rest of loadDocuments and,
\* for the reload of an add or delete, the rest of that operation
ListResponse(i) ==
    /\ tasks[i].pc \in {"list", "reload"}
    /\ \E st \in Outcomes(tasks[i]) :
         LET t == tasks[i]
             c == loadDocumentsCatch(documents, ListFailure(st))
         IN IF st = "ok"
              THEN /\ documents' = Arr(MapItems(t.items))
                   /\ ev' = [EvBase("ListResponse") EXCEPT
                                 !.load = "ok", !.st = st, !.hadError = (error # Null),
                                 !.docsChanged = (Arr(MapItems(t.items)) # documents),
                                 !.newId = t.newId, !.op = t.op]
                   /\ UNCHANGED error
              ELSE /\ documents' = c.documents
                   /\ error' = IF c.threw /\ t.op # "loadDocuments"
                                 THEN CatchPrefix(t.op) \o NullTypeError
                                 ELSE c.error
                   /\ ev' = [EvBase("ListResponse") EXCEPT
                                 !.load = "failed", !.st = st, !.hadError = (error # Null),
                                 !.threw = (c.threw /\ t.op = "loadDocuments"),
                                 !.docsChanged = (c.documents # documents),
                                 !.op = t.op]
    /\ isLoading' = FALSE
    /\ tasks' = Remove(tasks, i)
    /\ UNCHANGED <<config, runtimeToken, localData, storageMode, notes, nextId, ops>>

----------------------------------------------------------------------------
(* The record store carries a request out *)

Answer(i, items, newId) ==
    tasks' = [tasks EXCEPT ![i] = [@ EXCEPT !.net = "ok", !.items = items, !.newId = newId]]

\* GET /api/collections/Notes/records?sort=-created
ServeList(i) ==
    /\ tasks[i].pc \in {"list", "reload"} /\ tasks[i].net = "sent"
    /\ Answer(i, notes, tasks[i].newId)
    /\ ev' = EvBase("ServeList")
    /\ UNCHANGED <<documents, config, runtimeToken, isLoading, error, localData,
                   storageMode, notes, nextId, ops>>

\* POST /api/collections/Notes/records
ServeCreate(i) ==
    /\ tasks[i].pc = "primary" /\ tasks[i].net = "sent"
    /\ notes' = <<NewNote(tasks[i].doc, nextId)>> \o notes
    /\ nextId' = nextId + 1
    /\ Answer(i, <<>>, RemoteId(nextId))
    /\ ev' = EvBase("ServeCreate")
    /\ UNCHANGED <<documents, config, runtimeToken, isLoading, error, localData,
                   storageMode, ops>>

\* POST /api/collections/Observations/records
ServeObservation(i) ==
    /\ tasks[i].pc = "secondary" /\ tasks[i].net = "sent"
    /\ Answer(i, <<>>, tasks[i].newId)
    /\ ev' = EvBase("ServeObservation")
    /\ UNCHANGED <<documents, config, runtimeToken, isLoading, error, localData,
                   storageMode, notes, nextId, ops>>

\* DELETE /api/collections/Notes/records/<id>
ServeDelete(i) ==
    /\ tasks[i].pc = "del" /\ tasks[i].net = "sent"
    /\ tasks[i].id \in Ids(notes)
    /\ notes' = FilterOut(notes, tasks[i].id)
    /\ Answer(i, <<>>, "")
    /\ ev' = EvBase("ServeDelete")
    /\ UNCHANGED <<documents, config, runtimeToken, isLoading, error, localData,
                   storageMode, nextId, ops>>

----------------------------------------------------------------------------

(* testConnection *)

\* what the health request can come to: a 2xx answer with a JSON body, with the
\* JSON body null, or with a body that is not JSON; a status that is not 2xx; a
\* network error; the timeout
TestOutcomes == {"ok", "okNull", "okBad", "err", "network", "timeout"}

\* the value testConnection resolves to
TestResult(st) ==
    CASE st = "ok" -> [success |-> TRUE, message |-> "Connected! Code: 200"]
      [] st \in {"okNull", "okBad"} ->
            \* response.json() or data.code threw inside the inner try
            [success |-> TRUE, message |-> "Connected (no JSON response)"]
      [] st = "err" -> [success |-> FALSE, message |-> "Server responded with 500"]
      [] OTHER -> [success |-> FALSE, message |-> "Unreachable: " \o FetchError(st)]

\* testConnection(url) up to its fetch of url/api/health (no Authorization header)
TestConnection ==
    /\ Started
    /\ tests' = tests + 1
    /\ ev' = [EvBase("TestConnection") EXCEPT !.req = <<Req("health", "")>>]
    /\ aev' = AuthEv("")
    /\ UNCHANGED <<documents, config, runtimeToken, isLoading, error, localData,
                   storageMode, notes, tasks, nextId, configData, isLoggedIn, currentUser,
                   isAdmin, sessionUser, sessionToken, logins>>

\* TestResponse that reports a failure through the error signal as well
TestResponseSetsError(st) ==
    /\ tests > 0 /\ tests' = tests - 1
    /\ ev' = [EvBase("TestResponse") EXCEPT !.st = st, !.result = TestResult(st)]
    /\ aev' = AuthEv("")
    /\ error' = IF TestResult(st).success THEN error ELSE TestResult(st).message
    /\ UNCHANGED <<documents, config, runtimeToken, isLoading, localData,
                   storageMode, notes, tasks, nextId, ops, configData, isLoggedIn,
                   currentUser, isAdmin, sessionUser, sessionToken, logins>>

\* testConnection from its fetch on, the request having come to st
TestResponse(st) ==
    /\ tests > 0 /\ tests' = tests - 1
    /\ ev' = [EvBase("TestResponse") EXCEPT !.st = st, !.result = TestResult(st)]
    /\ aev' = AuthEv("")
    /\ UNCHANGED <<documents, config, runtimeToken, isLoading, error, localData,
                   storageMode, notes, tasks, nextId, ops, configData, isLoggedIn,
                   currentUser, isAdmin, sessionUser, sessionToken, logins>>

----------------------------------------------------------------------------
(* AuthService *)

\* String.prototype.toLowerCase on the role strings that occur
Lower(s) ==
    CASE s = "Admin" -> "admin"
      [] s = "ADMIN" -> "admin"
      [] OTHER -> s

\* setInternalState(user, token) with isAdmin holding adminBefore: the signals
\* after it, whether user.role.toLowerCase() threw (user is null, or its role is
\* not a string) and whether setRuntimeToken(token) is reached
setInternalState(user, token, adminBefore) ==
    LET roleOk == user # NoUser /\ IsString(user.role) IN
    [isLoggedIn |-> TRUE, currentUser |-> user,
     isAdmin |-> IF roleOk THEN Lower(user.role) = "admin" ELSE adminBefore,
     threw |-> ~roleOk, push |-> roleOk /\ token # ""]

\* an exception leaves saveSession(user, token) before anything is stored
saveSessionThrows(user, token) ==
    LET s == setInternalState(user, token, isAdmin) IN
    s.threw \/ (s.push /\ setRuntimeTokenThrows)

\* saveSession(user, token), called by `name`: setInternalState, then the identity
\* is stored, and the token only when it is not empty
saveSession(name, user, token) ==
    LET s == setInternalState(user, token, isAdmin) IN
    /\ isLoggedIn' = s.isLoggedIn /\ currentUser' = s.currentUser /\ isAdmin' = s.isAdmin
    /\ IF s.push
         THEN setRuntimeToken(name, token)
         ELSE /\ ev' = EvBase(name)
              /\ UNCHANGED <<runtimeToken, documents, isLoading, error, tasks>>
    /\ IF saveSessionThrows(user, token)
         THEN UNCHANGED <<sessionUser, sessionToken>>
         ELSE /\ sessionUser' = JsonText(user)
              /\ sessionToken' = IF token # "" THEN token ELSE sessionToken

\* the identity loginLocal builds (it has no name property)
LocalAdmin(email) == UserData("local-admin", "Local Admin", email, Undefined, "admin")

\* whether loginLocal accepts the credentials
loginLocal(cred) == cred.email = "docuser@docuser.com" /\ cred.pass = "docuser"

\* login(email, pass): loginLocal to its end, or loginPocketBase up to its fetch
Login(cred) ==
    /\ Started
    /\ UNCHANGED <<config, configData, localData, storageMode, notes, nextId, tests>>
    /\ IF config = NullConfig
         THEN \* config.usePocketBase throws: the promise login() returned rejects
              /\ aev' = [AuthEv("Login") EXCEPT !.threw = TRUE, !.cred = cred]
              /\ ev' = EvBase("Login")
              /\ UNCHANGED <<documents, runtimeToken, isLoading, error, tasks, isLoggedIn,
                             currentUser, isAdmin, sessionUser, sessionToken, logins>>
         ELSE IF config.usePocketBase
         THEN /\ logins' = logins + 1
              /\ aev' = AuthEv("Login")
              /\ ev' = [EvBase("Login") EXCEPT !.req = <<Req("auth", "")>>]
              /\ UNCHANGED <<documents, runtimeToken, isLoading, error, tasks, isLoggedIn,
                             currentUser, isAdmin, sessionUser, sessionToken>>
         ELSE IF loginLocal(cred)
         THEN /\ saveSession("Login", LocalAdmin(cred.email), "")
              /\ aev' = [AuthEv("Login") EXCEPT !.ret = "true", !.nav = "/dashboard",
                                                !.cred = cred]
              /\ UNCHANGED logins
         ELSE /\ aev' = [AuthEv("Login") EXCEPT !.ret = "false", !.cred = cred]
              /\ ev' = EvBase("Login")
              /\ UNCHANGED <<documents, runtimeToken, isLoading, error, tasks, isLoggedIn,
                             currentUser, isAdmin, sessionUser, sessionToken, logins>>

\* data.record of an auth-with-password answer; a property that is missing or
\* empty is "" (both are falsy)
AuthRecord(id, username, email, role) ==
    [id |-> id, username |-> username, name |-> "", email |-> email,
     Role |-> role, role |-> ""]
AuthRecords ==
    { AuthRecord("u1", "alice", "alice@example.com", "Admin"),
      AuthRecord("u2", "", "", ""),
      AuthRecord("u3", "carol", "carol@example.com", NotAString),
      AuthRecord("", "dave", "dave@example.com", "user") }

\* what the awaited auth request comes to: a status that is not 2xx, a network
\* error, the 10 s timeout, a body that is not JSON or has no record, or a record
\* with the token issued ("" when the answer carries none)
AuthFailure(kind) ==
    [kind |-> kind, record |-> AuthRecord("", "", "", ""), token |-> ""]
AuthAnswers ==
    {AuthFailure(k) : k \in {"err", "network", "timeout", "okBad", "noRecord"}}
    \cup {[kind |-> "ok", record |-> r, token |-> "session-token"] : r \in AuthRecords}
    \cup {[kind |-> "ok", record |-> AuthRecord("u2", "", "", ""), token |-> ""]}

Or(a, b) == IF a # "" THEN a ELSE b

\* the userData loginPocketBase builds from data.record
RecordUser(record) ==
    UserData(record.id,
             Or(record.username, Or(record.name, Or(record.email, "Unknown User"))),
             record.email, record.name,
             Or(record.Role, Or(record.role, "user")))

\* loginPocketBase from its fetch on, the request answered by a
AuthResponse(a) ==
    /\ logins > 0 /\ logins' = logins - 1
    /\ UNCHANGED <<config, configData, localData, storageMode, notes, nextId, ops, tests>>
    /\ IF a.kind # "ok" \/ a.record.id = ""
         THEN /\ aev' = [AuthEv("AuthResponse") EXCEPT !.ret = "false"]
              /\ ev' = [EvBase("AuthResponse") EXCEPT !.st = a.kind]
              /\ UNCHANGED <<documents, runtimeToken, isLoading, error, tasks, isLoggedIn,
                             currentUser, isAdmin, sessionUser, sessionToken>>
         ELSE LET userData == RecordUser(a.record) IN
              /\ saveSession("AuthResponse", userData, a.token)
              /\ aev' = IF saveSessionThrows(userData, a.token)
                          THEN \* caught by loginPocketBase
                               [AuthEv("AuthResponse") EXCEPT !.ret = "false"]
                          ELSE [AuthEv("AuthResponse") EXCEPT !.ret = "true",
                                                              !.nav = "/dashboard"]

\* logout() that hands the repository the token it already holds instead of ''
LogoutKeepsToken ==
    /\ Started
    /\ isLoggedIn' = FALSE /\ currentUser' = NoUser /\ isAdmin' = FALSE
    /\ setRuntimeToken("Logout", runtimeToken)
    /\ IF setRuntimeTokenThrows
         THEN /\ aev' = [AuthEv("Logout") EXCEPT !.threw = TRUE]
              /\ UNCHANGED <<sessionUser, sessionToken>>
         ELSE /\ aev' = [AuthEv("Logout") EXCEPT !.nav = "/login"]
              /\ sessionUser' = Absent /\ sessionToken' = ""
    /\ UNCHANGED <<config, configData, localData, storageMode, notes, nextId, logins,
                   tests>>

\* logout(): setRuntimeToken('') throwing ends it before the entries are removed
Logout ==
    /\ Started
    /\ isLoggedIn' = FALSE /\ currentUser' = NoUser /\ isAdmin' = FALSE
    /\ setRuntimeToken("Logout", "")
    /\ IF setRuntimeTokenThrows
         THEN /\ aev' = [AuthEv("Logout") EXCEPT !.threw = TRUE]
              /\ UNCHANGED <<sessionUser, sessionToken>>
         ELSE /\ aev' = [AuthEv("Logout") EXCEPT !.nav = "/login"]
              /\ sessionUser' = Absent /\ sessionToken' = ""
    /\ UNCHANGED <<config, configData, localData, storageMode, notes, nextId, logins,
                   tests>>

----------------------------------------------------------------------------

\* the DataService driven directly by its callers; the AuthService is idle
Next ==
    \/ LoadDocuments /\ UNCHANGED <<configData, authVars, stale>>
    \/ \E doc \in DocInputs : AddDocumentLocal(doc) /\ UNCHANGED <<configData, authVars, stale>>
    \/ \E doc \in DocInputs : AddDocumentRemote(doc) /\ UNCHANGED <<configData, authVars, stale>>
    \/ \E id \in DeleteIds : DeleteDocumentLocal(id) /\ UNCHANGED <<configData, authVars, stale>>
    \/ \E id \in DeleteIds : DeleteDocumentRemote(id) /\ UNCHANGED <<configData, authVars, stale>>
    \/ \E c \in Configs : SaveConfig(c) /\ UNCHANGED <<authVars, stale>>
    \/ \E token \in SessionTokens : SetRuntimeToken(token) /\ UNCHANGED <<configData, authVars, stale>>
    \/ \E i \in 1..Len(tasks) : PrimaryResponse(i) /\ UNCHANGED <<configData, authVars, stale>>
    \/ \E i \in 1..Len(tasks) : SecondaryResponse(i) /\ UNCHANGED <<configData, authVars, stale>>
    \/ \E i \in 1..Len(tasks) : DeleteResponse(i) /\ UNCHANGED <<configData, authVars, stale>>
    \/ \E i \in 1..Len(tasks) : ListResponse(i) /\ UNCHANGED <<configData, authVars, stale>>
    \/ \E i \in 1..Len(tasks) : ServeList(i) /\ UNCHANGED <<configData, authVars, stale>>
    \/ \E i \in 1..Len(tasks) : ServeCreate(i) /\ UNCHANGED <<configData, authVars, stale>>
    \/ \E i \in 1..Len(tasks) : ServeObservation(i) /\ UNCHANGED <<configData, authVars, stale>>
    \/ \E i \in 1..Len(tasks) : ServeDelete(i) /\ UNCHANGED <<configData, authVars, stale>>

Spec == Init /\ [][Next]_vars

----------------------------------------------------------------------------
(* The application at startup and under the login screen, the settings form   *)
(* and the dashboard's reload: DataService and AuthService together.          *)

\* what the browser holds when the page is opened: the configuration entry
\* (blocked: localStorage reads throw)
StoredConfigs ==
    { [mode |-> "ok", data |-> Absent],
      [mode |-> "ok", data |-> Garbage],
      [mode |-> "ok", data |-> JsonText(NullConfig)],
      [mode |-> "ok", data |-> JsonText([usePocketBase |-> TRUE, pbUrl |-> DefaultUrl,
                                         pbAuthToken |-> ""])],
      [mode |-> "ok", data |-> JsonText([usePocketBase |-> TRUE, pbUrl |-> DefaultUrl,
                                         pbAuthToken |-> "static-token"])],
      [mode |-> "blocked", data |-> JsonText([usePocketBase |-> TRUE, pbUrl |-> DefaultUrl,
                                              pbAuthToken |-> ""])] }
\* and the session entries: none, text JSON.parse rejects, JSON null, or an
\* identity an earlier login stored, with the token stored next to it
StoredSessions ==
    { [user |-> Absent, token |-> ""],
      [user |-> Garbage, token |-> "session-token"],
      [user |-> JsonText(NoUser), token |-> ""],
      [user |-> JsonText(LocalAdmin("docuser@docuser.com")), token |-> ""],
      [user |-> JsonText(UserData("u1", "alice", "alice@example.com", "", "Admin")),
       token |-> "session-token"],
      [user |-> JsonText(UserData("u2", "Unknown User", "", "", "user")),
       token |-> "session-token"] }

\* the DataService constructor: loadConfig(), then loadDocuments() up to its
\* first fetch
DataServiceBoot(cd, mode, ld) ==
    LET cfg == loadConfig(cd, mode) IN
    IF cfg = NullConfig
      THEN [config |-> cfg, documents |-> Arr(<<>>), load |-> "failed", auth |-> "",
            error |-> "Failed to load data: " \o NullTypeError]
      ELSE LET r == loadDocumentsStart(cfg, "", Arr(<<>>), ld, mode) IN
           [config |-> cfg, documents |-> r.documents, load |-> r.load, auth |-> r.auth,
            error |-> Null]

\* restoreSession() by the entries it reads: nothing stored ("none"), the
\* identity restored ("restored"), or its catch block ran logout() ("logout":
\* JSON.parse, user.role.toLowerCase() or setRuntimeToken threw)
restoreSession(su, st, cfg) ==
    IF su.kind = "absent" THEN "none"
    ELSE IF su.kind = "garbage" THEN "logout"
    ELSE IF setInternalState(su.value, st, FALSE).threw THEN "logout"
    ELSE IF setInternalState(su.value, st, FALSE).push /\ cfg = NullConfig THEN "logout"
    ELSE "restored"

\* the state after both constructors
AuthInit ==
    /\ stale = NoStale
    /\ localData = JsonText(Arr(<<OldLocalDoc>>))
    /\ notes = <<OldNote>>
    /\ nextId = 1 /\ ops = 0 /\ logins = 0 /\ tests = 0
    /\ \E c \in StoredConfigs, s \in StoredSessions :
         LET d == DataServiceBoot(c.data, c.mode, localData)
             how == restoreSession(s.user, s.token, d.config)
             \* logout()'s setRuntimeToken('') throws out of the constructor
             threw == how = "logout" /\ d.config = NullConfig
             rt == IF how = "restored" THEN s.token ELSE ""
             \* setRuntimeToken reloads: the restored token, or logout's ''
             again == /\ d.config # NullConfig /\ d.config.usePocketBase
                      /\ (how = "logout" \/ (how = "restored" /\ s.token # ""))
             r == loadDocumentsStart(d.config, rt, d.documents, localData, c.mode)
             first == IF d.load = "sent" THEN <<LoadTask(d.auth)>> ELSE <<>>
         IN
         /\ storageMode = c.mode /\ configData = c.data /\ config = d.config
         /\ runtimeToken = rt
         /\ documents = d.documents
         /\ error = IF again THEN Null ELSE d.error
         /\ isLoading = IF again THEN r.load = "sent" ELSE d.load = "sent"
         /\ tasks = IF again /\ r.load = "sent" THEN Append(first, LoadTask(r.auth))
                    ELSE first
         /\ ev = IF again
                   THEN [EvBase("constructor") EXCEPT !.load = r.load, !.req = ListReq(r)]
                   ELSE [EvBase("constructor") EXCEPT !.load = d.load,
                            !.req = IF d.load = "sent" THEN <<Req("list", d.auth)>> ELSE <<>>,
                            !.docsChanged = (d.documents # Arr(<<>>))]
         /\ isLoggedIn = (how = "restored")
         /\ currentUser = IF how = "restored" THEN s.user.value ELSE NoUser
         /\ isAdmin = IF how = "restored"
                        THEN setInternalState(s.user.value, s.token, FALSE).isAdmin
                        ELSE FALSE
         /\ sessionUser = IF how = "logout" /\ ~threw THEN Absent ELSE s.user
         /\ sessionToken = IF how = "logout" /\ ~threw THEN "" ELSE s.token
         /\ aev = [AuthEv("constructor") EXCEPT
                      !.threw = threw,
                      !.load = IF again THEN r.load ELSE "none",
                      !.nav = IF how = "logout" /\ ~threw THEN "/login" ELSE "",
                      !.stored = IF s.user.kind = "absent" THEN "none"
                                 ELSE IF s.user.kind = "garbage"
                                         \/ setInternalState(s.user.value, s.token, FALSE).threw
                                 THEN "corrupt" ELSE "identity"]

authState == <<isLoggedIn, currentUser, isAdmin, sessionUser, sessionToken, logins, tests>>

AuthNext ==
    \/ \E cred \in Credentials : Login(cred) /\ UNCHANGED stale
    \/ \E a \in AuthAnswers : AuthResponse(a) /\ UNCHANGED stale
    \/ Logout /\ UNCHANGED stale
    \/ TestConnection /\ UNCHANGED stale
    \/ \E st \in TestOutcomes : TestResponse(st) /\ UNCHANGED stale
    \/ \E c \in Configs : SaveConfig(c) /\ aev' = AuthEv("") /\ UNCHANGED <<authState, stale>>
    \/ LoadDocuments /\ aev' = AuthEv("") /\ UNCHANGED <<configData, authState, stale>>
    \/ \E i \in 1..Len(tasks) :
          ListResponse(i) /\ aev' = AuthEv("") /\ UNCHANGED <<configData, authState, stale>>
    \/ \E i \in 1..Len(tasks) :
          ServeList(i) /\ aev' = AuthEv("") /\ UNCHANGED <<configData, authState, stale>>

AuthSpec == AuthInit /\ [][AuthNext]_vars

----------------------------------------------------------------------------
(* The session and the remote mutations together: documents are added and     *)
(* deleted on the record store while the user logs in and out.                *)

SessionNext ==
    \/ \E cred \in Credentials : Login(cred) /\ UNCHANGED stale
    \/ \E a \in AuthAnswers : AuthResponse(a) /\ UNCHANGED stale
    \/ Logout /\ UNCHANGED stale
    \/ TestConnection /\ UNCHANGED stale
    \/ \E st \in TestOutcomes : TestResponse(st) /\ UNCHANGED stale
    \/ \E c \in Configs : SaveConfig(c) /\ aev' = AuthEv("") /\ UNCHANGED <<authState, stale>>
    \/ LoadDocuments /\ aev' = AuthEv("") /\ UNCHANGED <<configData, authState, stale>>
    \/ \E i \in 1..Len(tasks) :
          ListResponse(i) /\ aev' = AuthEv("") /\ UNCHANGED <<configData, authState, stale>>
    \/ \E i \in 1..Len(tasks) :
          ServeList(i) /\ aev' = AuthEv("") /\ UNCHANGED <<configData, authState, stale>>
    \/ \E doc \in DocInputs :
          AddDocumentRemote(doc) /\ aev' = AuthEv("") /\ UNCHANGED <<configData, authState, stale>>
    \/ \E id \in DeleteIds :
          DeleteDocumentRemote(id) /\ aev' = AuthEv("") /\ UNCHANGED <<configData, authState, stale>>
    \/ \E i \in 1..Len(tasks) :
          PrimaryResponse(i) /\ aev' = AuthEv("") /\ UNCHANGED <<configData, authState, stale>>
    \/ \E i \in 1..Len(tasks) :
          SecondaryResponse(i) /\ aev' = AuthEv("") /\ UNCHANGED <<configData, authState, stale>>
    \/ \E i \in 1..Len(tasks) :
          DeleteResponse(i) /\ aev' = AuthEv("") /\ UNCHANGED <<configData, authState, stale>>
    \/ \E i \in 1..Len(tasks) :
          ServeCreate(i) /\ aev' = AuthEv("") /\ UNCHANGED <<configData, authState, stale>>
    \/ \E i \in 1..Len(tasks) :
          ServeObservation(i) /\ aev' = AuthEv("") /\ UNCHANGED <<configData, authState, stale>>
    \/ \E i \in 1..Len(tasks) :
          ServeDelete(i) /\ aev' = AuthEv("") /\ UNCHANGED <<configData, authState, stale>>

SessionSpec == AuthInit /\ [][SessionNext]_vars

----------------------------------------------------------------------------
(* The repository read by the dashboard: DashboardComponent.sortedDocs *)

\* new Date(s).getTime(): Stamp(n) stands for the n-th instant of the run, a text
\* Date cannot parse gives NaN
NaN == -1
Time(s) ==
    IF \E n \in 0..9 : s = Stamp(n) THEN CHOOSE n \in 0..9 : s = Stamp(n)
    ELSE IF s = "2026-06-01T00:00:00.000Z" THEN 100
    ELSE IF s = "2027-01-01T00:00:00.000Z" THEN 200
    ELSE NaN

\* the comparator handed to sort: a NaN difference counts as equal
ByExpiration(a, b) ==
    LET ta == Time(a.expirationDate)
        tb == Time(b.expirationDate)
    IN IF ta = NaN \/ tb = NaN THEN 0 ELSE ta - tb

\* Array.prototype.sort is stable: x goes behind every element not after it
RECURSIVE SortInsert(_, _)
SortInsert(s, x) ==
    IF s = <<>> THEN <<x>>
    ELSE IF ByExpiration(s[Len(s)], x) > 0
           THEN SortInsert(SubSeq(s, 1, Len(s) - 1), x) \o <<s[Len(s)]>>
           ELSE s \o <<x>>

RECURSIVE SortByExpiration(_)
SortByExpiration(s) ==
    IF s = <<>> THEN <<>>
    ELSE SortInsert(SortByExpiration(SubSeq(s, 1, Len(s) - 1)), s[Len(s)])

\* sortedDocs recomputed by a render: docs.sort(...) sorts the array that
\* documents() holds, in place (on a documents() that is null the call throws
\* inside the view and nothing changes)
sortedDocs ==
    /\ documents.isArray
    /\ documents' = Arr(SortByExpiration(documents.items))
    /\ ev' = [EvBase("sortedDocs") EXCEPT
                  !.docsChanged = (Arr(SortByExpiration(documents.items)) # documents)]
    /\ UNCHANGED <<config, runtimeToken, isLoading, error, localData, storageMode,
                   notes, tasks, nextId, ops>>

\* positions after the task at i has left tasks
Shift(S, i) == {IF j > i THEN j - 1 ELSE j : j \in S \ {i}}

ListPending(j) == tasks[j].pc \in {"list", "reload"}

\* a step that starts an operation or carries a request out: tasks only grows at
\* its end
KeepOrder == UNCHANGED stale

\* a step that resumes the task at i: when the answer of a list request is
\* applied, the list requests issued before it are overtaken, and the answer of
\* a request not overtaken is the latest result
TrackOrder(i) ==
    LET inPlace == /\ Len(tasks') = Len(tasks)
                   /\ \A j \in 1..Len(tasks) : j # i => tasks'[j] = tasks[j]
        applied == ev'.name = "ListResponse" /\ ev'.load = "ok"
        overtaken == IF applied THEN {j \in 1..(i - 1) : ListPending(j)} ELSE {}
    IN stale' = [tasks |-> IF inPlace THEN stale.tasks
                           ELSE Shift(stale.tasks \cup overtaken, i),
                 result |-> IF applied /\ i \notin stale.tasks THEN documents'
                            ELSE stale.result]

ViewNext ==
    \/ sortedDocs /\ KeepOrder /\ UNCHANGED <<configData, authVars>>
    \/ LoadDocuments /\ KeepOrder /\ UNCHANGED <<configData, authVars>>
    \/ \E doc \in DocInputs : AddDocumentLocal(doc) /\ KeepOrder /\ UNCHANGED <<configData, authVars>>
    \/ \E doc \in DocInputs : AddDocumentRemote(doc) /\ KeepOrder /\ UNCHANGED <<configData, authVars>>
    \/ \E id \in DeleteIds : DeleteDocumentLocal(id) /\ KeepOrder /\ UNCHANGED <<configData, authVars>>
    \/ \E id \in DeleteIds : DeleteDocumentRemote(id) /\ KeepOrder /\ UNCHANGED <<configData, authVars>>
    \/ \E c \in Configs : SaveConfig(c) /\ KeepOrder /\ UNCHANGED authVars
    \/ \E token \in SessionTokens : SetRuntimeToken(token) /\ KeepOrder /\ UNCHANGED <<configData, authVars>>
    \/ \E i \in 1..Len(tasks) : PrimaryResponse(i) /\ TrackOrder(i) /\ UNCHANGED <<configData, authVars>>
    \/ \E i \in 1..Len(tasks) : SecondaryResponse(i) /\ TrackOrder(i) /\ UNCHANGED <<configData, authVars>>
    \/ \E i \in 1..Len(tasks) : DeleteResponse(i) /\ TrackOrder(i) /\ UNCHANGED <<configData, authVars>>
    \/ \E i \in 1..Len(tasks) : ListResponse(i) /\ TrackOrder(i) /\ UNCHANGED <<configData, authVars>>
    \/ \E i \in 1..Len(tasks) : ServeList(i) /\ KeepOrder /\ UNCHANGED <<configData, authVars>>
    \/ \E i \in 1..Len(tasks) : ServeCreate(i) /\ KeepOrder /\ UNCHANGED <<configData, authVars>>
    \/ \E i \in 1..Len(tasks) : ServeObservation(i) /\ KeepOrder /\ UNCHANGED <<configData, authVars>>
    \/ \E i \in 1..Len(tasks) : ServeDelete(i) /\ KeepOrder /\ UNCHANGED <<configData, authVars>>

ViewSpec == Init /\ [][ViewNext]_vars

----------------------------------------------------------------------------
(* Properties.  `ev` describes the macrotask that led to the current state,   *)
(* so a statement about what a step did is a statement about the state.      *)

\* a loadDocuments() began in the last macrotask
LoadStarted == ev.load \in {"local", "skipped", "sent"}
\* an invocation of loadDocuments, addDocument or deleteDocument ended in the last
\* macrotask
Completed == ev.load \in {"local", "skipped", "ok", "failed"} \/ ev.failed
\* the last macrotask belongs to the backend mutation step of a remote add or
\* delete: the request was issued, or the primary create was answered
MutationStep == ev.name \in {"AddDocumentRemote", "DeleteDocumentRemote", "PrimaryResponse"}

\* C1: in remote mode every request issued (list, primary create, secondary
\* create, delete) carries the session token when it is non-empty and the static
\* token pbAuthToken otherwise, i.e. what getAuthToken gives when the request is
\* issued.
C1_EveryRequestCarriesPriorityToken ==
    config.usePocketBase =>
        \A k \in 1..Len(ev.req) : ev.req[k].auth = getAuthToken(runtimeToken, config)

\* C2 as stated: a loadDocuments in remote mode with the session token and the
\* static token both empty issues no request and leaves documents and error as
\* they were (an error set before is still set).
C2_TokenlessLoadLeavesError ==
    (config.usePocketBase /\ getAuthToken(runtimeToken, config) = "" /\ LoadStarted) =>
        /\ ev.req = <<>>
        /\ ~ev.docsChanged
        /\ (ev.hadError <=> error # Null)

\* C2 amended: a loadDocuments in remote mode with the session token and the
\* static token both empty issues no request and leaves documents as it was;
\* error is null afterwards, whatever it was before.
C2_TokenlessLoadClearsError ==
    (config.usePocketBase /\ getAuthToken(runtimeToken, config) = "" /\ LoadStarted) =>
        /\ ev.req = <<>>
        /\ ~ev.docsChanged
        /\ ev.load = "skipped"
        /\ error = Null

\* C2 witness: a tokenless remote load ran while an earlier error was showing
C2_Witness ==
    /\ config.usePocketBase /\ getAuthToken(runtimeToken, config) = ""
    /\ ev.load = "skipped" /\ ev.hadError /\ documents.items # <<>>

\* C3: every invocation of loadDocuments, addDocument or deleteDocument ends
\* with isLoading false and returns to its caller without throwing.
C3_EndsIdleWithoutThrowing ==
    /\ ~ev.threw
    /\ Completed => ~isLoading

\* C4: once loadDocuments, addDocument or deleteDocument has started and is in
\* progress (its first request is out), error is null: the error of an earlier
\* failed operation is not visible during it.
C4_ErrorClearedAtStart ==
    (ev.load = "sent" \/ ev.name \in {"AddDocumentRemote", "DeleteDocumentRemote"}) =>
        error = Null

\* the Document the input doc becomes in the remote store's list (default
\* substitution for the fields left empty)
RemoteFieldsMatch(d, doc) ==
    /\ d.title = (IF doc.title = "" THEN "Untitled" ELSE doc.title)
    /\ d.category = (IF doc.category = "" THEN "General" ELSE doc.category)
    /\ d.details = doc.details
    /\ (doc.expirationDate # "" => d.expirationDate = doc.expirationDate)

\* C5: addDocument followed by loadDocuments yields the prior records of the
\* active backend plus exactly one new record with the fields of the input.
\* Local: the list after the add and its load is the new record and the records
\* storage held.  Remote: the list loaded by the add's reload holds exactly one
\* record with the created id, and its fields are those of the input.
C5_AddThenLoadAddsOne ==
    [][ /\ \A doc \in DocInputs :
             (AddDocumentLocal(doc) /\ ~ev'.failed) =>
                 LET prior == loadFromLocal(localData, storageMode) IN
                 prior.isArray =>
                     /\ documents'.isArray
                     /\ SeqToSet(documents'.items) =
                            SeqToSet(prior.items) \cup {NewLocalDoc(doc, nextId)}
                     /\ Len(documents'.items) = Len(prior.items) + 1
        /\ \A i \in 1..Len(tasks) :
             (ListResponse(i) /\ tasks[i].op = "addDocument" /\ ev'.load = "ok") =>
                 \/ tasks[i].newId \notin Ids(notes)
                 \/ /\ Cardinality({k \in 1..Len(documents'.items) :
                                        documents'.items[k].id = tasks[i].newId}) = 1
                    /\ \A k \in 1..Len(documents'.items) :
                           documents'.items[k].id = tasks[i].newId =>
                               RemoteFieldsMatch(documents'.items[k], tasks[i].doc)
      ]_vars

\* C6: deleteDocument(id) followed by loadDocuments yields a list without that
\* id in which every other prior record is unchanged; in local mode the list
\* read back from storage is the prior list minus that record.
C6_DeleteThenLoadRemovesId ==
    [][ /\ \A id \in DeleteIds :
             (DeleteDocumentLocal(id) /\ ~ev'.failed) =>
                 LET prior == loadFromLocal(localData, storageMode) IN
                 prior.isArray =>
                     /\ documents' = Arr(FilterOut(prior.items, id))
                     /\ loadFromLocal(localData', storageMode) = documents'
        /\ \A i \in 1..Len(tasks) :
             (ListResponse(i) /\ tasks[i].op = "deleteDocument" /\ ev'.load = "ok") =>
                 tasks[i].id \notin Ids(documents'.items)
      ]_vars

\* C7: a failed addDocument or deleteDocument (its backend mutation step fails)
\* leaves documents as it was: no step of the operation up to and including
\* the failure changes documents, no list request is issued and no load is
\* started by it, and error is a message when it ends.
C7_FailedMutationLeavesDocuments ==
    /\ MutationStep => ~ev.docsChanged
    /\ ev.failed =>
          /\ ~ev.docsChanged
          /\ ev.req = <<>>
          /\ ev.load = "none"
          /\ error # Null
          /\ ~isLoading

\* C7 witness: a remote add or delete failed while documents were showing
C7_Witness ==
    /\ ev.failed /\ ev.st \in {"err", "okBad", "network", "timeout"}
    /\ documents.isArray /\ documents.items # <<>>

\* C8: a failed loadDocuments (list answered with a status that is not 2xx, a
\* malformed body, a network error or a timeout) leaves documents at the value it
\* had before (neither the start of the load nor its failure changes documents)
\* and ends with error set to a message.
C8_FailedLoadLeavesDocuments ==
    /\ ev.load = "sent" => ~ev.docsChanged
    /\ ev.load = "failed" =>
          /\ ~ev.docsChanged
          /\ error # Null
          /\ ev.st \in {"err", "okBad", "network", "timeout"}

\* C8 witness: a load failed after an earlier load had filled documents
C8_Witness ==
    /\ ev.load = "failed" /\ documents.isArray /\ documents.items # <<>>
    /\ config.usePocketBase

\* C9: in a remote addDocument whose primary create succeeded, a failure of the
\* Observations write (status not 2xx, network error, timeout) does not fail the
\* add: error is not set, the reload runs, and the list the reload loads
\* includes the new record (unless a deleteDocument has removed it from the
\* store in the meantime).
C9_SecondaryFailureIsSwallowed ==
    /\ (ev.name = "SecondaryResponse" /\ ev.st # "ok") =>
          /\ ~ev.failed
          /\ error = Null
          /\ LoadStarted
    /\ \A i \in 1..Len(tasks) :
          (tasks[i].op = "addDocument" /\ tasks[i].pc \in {"secondary", "reload"}) =>
              tasks[i].newId # ""
    /\ (ev.name = "ListResponse" /\ ev.load = "ok" /\ ev.newId # "") =>
          (ev.newId \in Ids(documents.items) \/ ev.newId \notin Ids(notes))

\* C9 witness: the Observations write was refused and the reload's list request
\* went out
C9_Witness ==
    /\ ev.name = "SecondaryResponse" /\ ev.st = "err"
    /\ ev.load = "sent" /\ Len(ev.req) = 1 /\ ev.req[1].kind = "list"

\* C10: within an addDocument or deleteDocument the reload begins only after the
\* backend mutation step has completed successfully: no load starts in the step
\* that issues the mutation request or in the one that receives the primary
\* create's answer, a delete reloads only on a successful answer, a failed
\* mutation starts no load, and an operation waiting for its reload's list is
\* past its mutation (an add holds the id of the record created).
C10_ReloadOnlyAfterMutation ==
    /\ MutationStep => (ev.load = "none" /\ \A k \in 1..Len(ev.req) : ev.req[k].kind # "list")
    /\ (ev.name = "DeleteResponse" /\ ev.load # "none") => ev.st = "ok"
    /\ ev.failed => ev.load = "none"
    /\ \A i \in 1..Len(tasks) :
          tasks[i].pc = "reload" =>
              /\ tasks[i].op \in {"addDocument", "deleteDocument"}
              /\ tasks[i].op = "addDocument" => tasks[i].newId \in {RemoteId(n) : n \in 1..nextId}
              /\ tasks[i].op = "deleteDocument" => tasks[i].id \notin Ids(notes)

\* C10 witness: a delete was answered and its reload's list request went out
C10_Witness ==
    /\ ev.name = "DeleteResponse" /\ ev.st = "ok" /\ ev.load = "sent"
    /\ \E i \in 1..Len(tasks) : tasks[i].pc = "reload" /\ tasks[i].op = "deleteDocument"

\* the message of the error fetchWithTimeout throws when its timer aborts the call
TimeoutMessage == "Request timeout: Server did not respond in time"

\* the continuation of the operation suspended as task i
Resume(i) ==
    PrimaryResponse(i) \/ SecondaryResponse(i) \/ DeleteResponse(i) \/ ListResponse(i)

\* C11: a remote operation whose server does not respond does not stay pending:
\* every suspended operation can resume (its request can end by timeout, whether
\* or not the record store has carried it out), and when the request an
\* operation began with (the list of a loadDocuments, the primary create of an
\* add, the DELETE of a delete) times out, the operation ends in that step with
\* error holding the 'Request timeout' message and isLoading false.
C11_TimeoutEndsOperation ==
    /\ \A i \in 1..Len(tasks) : "timeout" \in Outcomes(tasks[i]) /\ ENABLED Resume(i)
    /\ (ev.st = "timeout" /\ ev.name = "ListResponse" /\ ev.op = "loadDocuments") =>
          (error = "Failed to load data: " \o TimeoutMessage /\ ~isLoading /\ ev.load = "failed")
    /\ (ev.st = "timeout" /\ ev.name = "PrimaryResponse") =>
          (error = "Failed to save: " \o TimeoutMessage /\ ~isLoading /\ ev.failed)
    /\ (ev.st = "timeout" /\ ev.name = "DeleteResponse") =>
          (error = "Failed to delete: " \o TimeoutMessage /\ ~isLoading /\ ev.failed)

\* C11 witness: the list request of a loadDocuments that the record store never
\* answered timed out
C11_Witness ==
    /\ ev.st = "timeout" /\ ev.name = "ListResponse" /\ ev.op = "loadDocuments"
    /\ error = "Failed to load data: " \o TimeoutMessage /\ ~isLoading

----------------------------------------------------------------------------
(* Properties of the AuthService, read against AuthSpec.  `aev` describes the *)
(* AuthService step that led to the current state.                           *)

\* C12: a login that resolves to false has mutated nothing: isLoggedIn,
\* currentUser, isAdmin, both session-storage entries and the repository's
\* session token are as they were before the step, and no navigation was
\* signalled.
C12_FailedLoginMutatesNothing ==
    [][(aev'.name \in {"Login", "AuthResponse"} /\ aev'.ret = "false") =>
          /\ UNCHANGED <<isLoggedIn, currentUser, isAdmin, sessionUser, sessionToken,
                         runtimeToken>>
          /\ aev'.nav = ""]_vars

\* the state AuthService is in when nobody is logged in
Anonymous == ~isLoggedIn /\ currentUser = NoUser /\ ~isAdmin

\* C13: with the local backend selected, login("docuser", "docuser") returns
\* true, isLoggedIn and isAdmin are true afterwards and navigation to the
\* dashboard is signalled.
C13_LocalDocuserLoginSucceeds ==
    (/\ aev.name = "Login" /\ aev.cred = [email |-> "docuser", pass |-> "docuser"]
     /\ config # NullConfig /\ ~config.usePocketBase) =>
       (aev.ret = "true" /\ isLoggedIn /\ isAdmin /\ aev.nav = "/dashboard")

\* C14: when the constructor finds a corrupt identity entry (text that does not
\* parse, or a value without a role string), it ends Anonymous with both session
\* entries removed, no token pushed to the repository, and no exception.
C14_CorruptIdentityEndsAnonymous ==
    (aev.name = "constructor" /\ aev.stored = "corrupt") =>
       (/\ Anonymous
        /\ sessionUser = Absent /\ sessionToken = ""
        /\ runtimeToken = ""
        /\ ~aev.threw)

\* C15: after logout the service is Anonymous, the repository's session token
\* is "", both session entries are absent and navigation to the login view was
\* signalled.
C15_LogoutClearsEverything ==
    aev.name = "Logout" =>
       (/\ Anonymous
        /\ runtimeToken = ""
        /\ sessionUser = Absent /\ sessionToken = ""
        /\ aev.nav = "/login")

\* C16: after a successful local-credential login the repository's session
\* token is "" and session storage holds no token entry.
C16_LocalLoginLeavesNoToken ==
    (aev.name = "Login" /\ aev.ret = "true") => (runtimeToken = "" /\ sessionToken = "")

\* C17: between AuthService steps isAdmin is the flag derived from currentUser:
\* somebody is logged in and the lower-cased role is "admin".
C17_IsAdminDerivedFromCurrentUser ==
    isAdmin = (/\ currentUser # NoUser
               /\ IsString(currentUser.role)
               /\ Lower(currentUser.role) = "admin")

\* C18: after construction, a configuration entry that is missing, does not
\* parse, or parses to something that is not a configuration object leaves the
\* built-in default active, and construction did not throw.
C18_BadStoredConfigGivesDefault ==
    (/\ aev.name = "constructor"
     /\ (getSafeItem(configData, storageMode).kind # "json"
           \/ getSafeItem(configData, storageMode).value \notin Configs)) =>
       (config = DefaultConfig /\ ~aev.threw /\ ~ev.threw)

----------------------------------------------------------------------------
(* Properties of the configuration and of storage failures, read against Spec *)

\* C19 as stated: after saveConfig(c) the active configuration is c, loading
\* the configuration (as the next startup does) yields c, and the reload ran
\* against the backend and credentials c selects.
C19_SaveConfigAlwaysPersists ==
    ev.name = "SaveConfig" =>
       (config = ev.cfg /\ loadConfig(configData, storageMode) = ev.cfg)

\* C19: after saveConfig(c) the active configuration is c, whole; when
\* localStorage accepts the write, loading the configuration yields c (a write
\* that throws is swallowed and c stays active in memory only); and the reload
\* started in the same step runs against c: the local list is read when c selects
\* the local backend, otherwise a list request carrying the session token or
\* else c's static token is sent, or none when both are empty.
C19_SaveConfigReplacesPersistsReloads ==
    ev.name = "SaveConfig" =>
       /\ config = ev.cfg /\ ev.cfg \in Configs
       /\ storageMode = "ok" => loadConfig(configData, storageMode) = ev.cfg
       /\ ev.load = IF ~ev.cfg.usePocketBase THEN "local"
                    ELSE IF getAuthToken(runtimeToken, ev.cfg) = "" THEN "skipped"
                    ELSE "sent"
       /\ ev.req = IF ev.load = "sent"
                     THEN <<Req("list", getAuthToken(runtimeToken, ev.cfg))>>
                     ELSE <<>>
       /\ ~ev.cfg.usePocketBase => documents = loadFromLocal(localData, storageMode)
       /\ ~ev.threw

\* C19 witness: a remote configuration with a static token was saved over a
\* working localStorage, and the list request of the reload carries that token
C19_Witness ==
    /\ ev.name = "SaveConfig" /\ storageMode = "ok"
    /\ config.usePocketBase /\ config.pbAuthToken = "static-token"
    /\ configData = JsonText(config)
    /\ ev.req = <<Req("list", "static-token")>>

\* C20: with the local backend selected and localStorage failing (reads and
\* writes throw, or writes throw), loadDocuments, addDocument and deleteDocument
\* (and the constructor's load) end without an error: error is null, isLoading
\* is false, no exception left the operation.
C20_StorageFailureNotSurfaced ==
    (/\ storageMode # "ok" /\ ~config.usePocketBase
     /\ ev.name \in {"constructor", "LoadDocuments", "AddDocumentLocal",
                     "DeleteDocumentLocal"}) =>
       (error = Null /\ ~isLoading /\ ~ev.threw /\ ~ev.failed)

\* C20 witness: an addDocument ended without error although the write of the
\* new list threw
C20_Witness ==
    /\ storageMode = "readonly" /\ ~config.usePocketBase
    /\ ev.name = "AddDocumentLocal"
    /\ error = Null /\ ~isLoading /\ ~ev.failed

----------------------------------------------------------------------------
(* Properties of the local backend and of overlapping operations *)

\* C21: while localStorage fails (writes throw, or reads and writes throw), a
\* record added by addDocument is in documents when addDocument has returned,
\* and a record removed by deleteDocument is absent while the others remain.
C21_InMemoryModeKeepsMutations ==
    [][ /\ \A doc \in DocInputs :
             (AddDocumentLocal(doc) /\ storageMode # "ok" /\ documents.isArray) =>
                 /\ documents'.isArray
                 /\ NewLocalDoc(doc, nextId) \in SeqToSet(documents'.items)
        /\ \A id \in DeleteIds :
             (DeleteDocumentLocal(id) /\ storageMode # "ok" /\ documents.isArray) =>
                 documents' = Arr(FilterOut(documents.items, id))
      ]_vars

\* C22: in local mode a loadDocuments shows the list localStorage yields and
\* leaves the stored list alone, so a load that follows a load (nothing but
\* loads in between) leaves documents with the same contents in the same order.
C22_LocalLoadIsIdempotent ==
    [][ (LoadDocuments /\ ~config.usePocketBase) =>
           /\ documents' = loadFromLocal(localData, storageMode)
           /\ localData' = localData
           /\ (ev.name \in {"constructor", "LoadDocuments"} /\ ev.load = "local") =>
                 documents' = documents
      ]_vars

\* C22 witness: a second local load in a row found the stored record in
\* documents and left it there
C22_Witness ==
    /\ ev.name = "LoadDocuments" /\ ev.load = "local" /\ ops = 2
    /\ ~ev.docsChanged /\ ~config.usePocketBase
    /\ documents = Arr(<<OldLocalDoc>>) /\ localData = JsonText(documents)

\* C23: testConnection changes no repository or session state: from its call to
\* its return config, the stored configuration, the session token, documents,
\* isLoading, error and the AuthService's state are as they were, whatever the
\* health request comes to; it resolves to a result and never throws.
C23_TestConnectionHasNoSideEffects ==
    [][ ev'.name \in {"TestConnection", "TestResponse"} =>
           /\ UNCHANGED <<config, configData, runtimeToken, documents, isLoading, error,
                          localData, isLoggedIn, currentUser, isAdmin, sessionUser,
                          sessionToken>>
           /\ ~ev'.threw
           /\ ev'.name = "TestResponse" =>
                 /\ ev'.result.message # Null
                 /\ ev'.result.success = (ev'.st \in {"ok", "okNull", "okBad"})
      ]_vars

\* C23 witness: a connection test failed by timeout while error was null and a
\* load was in flight
C23_Witness ==
    /\ ev.name = "TestResponse" /\ ev.st = "timeout" /\ ~ev.result.success
    /\ error = Null /\ isLoading /\ tasks # <<>>

\* C24: isLoading is true whenever some repository operation is suspended at a
\* fetch.
C24_LoadingWhileInFlight == tasks # <<>> => isLoading

\* C25: when saveConfig or setRuntimeToken has returned to its caller (both
\* return in the step they are called in), the load it started is over: no list
\* request of it is in flight.
C25_NoLoadOutlivesItsCaller ==
    ev.name \in {"SaveConfig", "SetRuntimeToken"} => (ev.load # "sent" /\ ev.req = <<>>)

\* C26: when the constructor finds a stored identity (it parses and has a role
\* string), it ends Authenticated with that identity, isAdmin derived from its
\* role, the stored token pushed to the repository, and restoreSession has sent
\* no request to the remote backend.
C26_RestoreWithoutContactingBackend ==
    (aev.name = "constructor" /\ aev.stored = "identity") =>
       /\ ~aev.threw
       /\ isLoggedIn /\ sessionUser.kind = "json" /\ currentUser = sessionUser.value
       /\ isAdmin = (Lower(currentUser.role) = "admin")
       /\ runtimeToken = sessionToken
       /\ aev.load # "sent"

\* items in the order of insertion, the newest first
NewestFirst(items) ==
    \A j \in 1..(Len(items) - 1) : Time(items[j].created) > Time(items[j + 1].created)

\* C27: with the local backend, documents and the persisted list are ordered
\* newest-inserted-first after any sequence of adds, deletes and loads, and the
\* dashboard's expiration-sorted view leaves that order alone
C27_LocalOrderNewestFirst ==
    ~config.usePocketBase =>
        /\ documents.isArray => NewestFirst(documents.items)
        /\ (localData.kind = "json" /\ localData.value.isArray)
               => NewestFirst(localData.value.items)


\* C28: a successful remote load replaces documents with the list of the mapped
\* items, in the order of the response: id and created copied, title = Note or
\* "Untitled", category = Category or "General", details = NoteObservation or "",
\* expirationDate = expiration_date or the item's created timestamp
C28_RemoteLoadMapsItems ==
    [][ \A i \in 1..Len(tasks) :
          (ev'.name = "ListResponse" /\ ev'.load = "ok" /\ ListResponse(i)) =>
              /\ documents'.isArray
              /\ Len(documents'.items) = Len(tasks[i].items)
              /\ \A k \in 1..Len(tasks[i].items) :
                   LET item == tasks[i].items[k]
                       d == documents'.items[k]
                   IN /\ DOMAIN d = {"id", "title", "details", "category",
                                     "expirationDate", "created"}
                      /\ d.id = item.id /\ d.created = item.created
                      /\ d.title = (IF item.Note = "" THEN "Untitled" ELSE item.Note)
                      /\ d.category = (IF item.Category = "" THEN "General"
                                       ELSE item.Category)
                      /\ d.details = item.NoteObservation
                      /\ d.expirationDate = (IF item.expiration_date = ""
                                               THEN item.created
                                               ELSE item.expiration_date) ]_vars

\* the reload of an add answered with the new record before the old one, whose
\* optional fields are missing
C28_Witness ==
    /\ ev.name = "ListResponse" /\ ev.load = "ok" /\ ev.op = "addDocument"
    /\ documents =
         Arr(<< [id |-> "pb-1", title |-> "Passport", details |-> "renew it",
                 category |-> "Travel",
                 expirationDate |-> "2027-01-01T00:00:00.000Z", created |-> Stamp(1)],
                [id |-> "pb-0", title |-> "Untitled", details |-> "",
                 category |-> "General", expirationDate |-> Stamp(0),
                 created |-> Stamp(0)] >>)

\* the ids the record store gives out
RemoteIds == {RemoteId(n) : n \in 0..9}

\* C29: with the local backend selected and no operation in flight, documents is
\* the list persisted in local storage, and local storage never holds a record of
\* the record store
C29_LocalListIsThePersistedList ==
    /\ (~config.usePocketBase /\ tasks = <<>>)
           => documents = loadFromLocal(localData, storageMode)
    /\ (localData.kind = "json" /\ localData.value.isArray)
           => Ids(localData.value.items) \cap RemoteIds = {}

\* C30: when remote loads overlap, once they have all completed documents is the
\* result of the load started last, never that of a load started earlier whose
\* answer arrived later
C30_LastStartedLoadWins ==
    (ev.name = "ListResponse" /\ ev.load = "ok" /\ tasks = <<>>)
        => documents = stale.result

\* C31: once logout has returned (the session is over and the repository holds
\* no session token), no request issued carries the session token, whatever was
\* in flight when logout was called
C31_NoRequestCarriesEndedSessionToken ==
    (~isLoggedIn /\ runtimeToken = "") =>
        \A k \in 1..Len(ev.req) : ev.req[k].auth # "session-token"

\* C33: the repository holds a session token only while the session is
\* authenticated: no sequence of restore, login, failed login, logout and
\* saveConfig leaves runtimeToken non-empty with isLoggedIn false
C33_SessionTokenOnlyWhileLoggedIn == runtimeToken # "" => isLoggedIn

\* logout has ended a session whose token the repository held (a list request
\* sent under it is still in flight)
C33_Witness ==
    /\ aev.name = "Logout" /\ ~aev.threw
    /\ ~isLoggedIn /\ runtimeToken = ""
    /\ \E i \in 1..Len(tasks) : tasks[i].auth = "session-token"

\* C32: a remote addDocument that ends with error set ("Failed to save: ...")
\* created no primary record on the record store, and one whose primary create
\* request was answered with a success status does not report failure
C32_FailedAddCreatedNothing ==
    [][ \A i \in 1..Len(tasks) :
          (ev'.name = "PrimaryResponse" /\ PrimaryResponse(i)) =>
              /\ ev'.failed => tasks[i].net # "ok"
              /\ ev'.st \in {"ok", "okBad"} => ~ev'.failed ]_vars

====
